---- MODULE Spec2Model ----
(***************************************************************************)
(* Model of crates/lang/src/contract_ref.rs: the call builder handle       *)
(* CallBuilderBase<T, E>, the call forwarder handle ContractRef<T, E> and  *)
(* their codec, identity, conversion and storage layout implementations.   *)
(*                                                                         *)
(* The account id type <E as Environment>::AccountId, its SCALE codec, its *)
(* Hash/Debug implementations and its SpreadLayout implementation live     *)
(* outside this file; they are modelled by the AccountId_* operators and   *)
(* the KeyPtr / contract storage by a cursor over a finite array of cells. *)
(***************************************************************************)
EXTENDS Integers, Sequences, FiniteSets, TLC

VARIABLES
    E,        \* the environment the handle types are instantiated with
    h,        \* the handle the program currently holds (builder or forwarder)
    storage,  \* contract storage: cell contents by key offset
    ptr,      \* the KeyPtr cursor: offset of the next cell to hand out
    ret       \* the last operation and what it returned

vars == <<E, h, storage, ptr, ret>>

(***************************************************************************)
(* Bounds of the model.                                                    *)
(***************************************************************************)
MaxKey    == 1    \* storage cells are the key offsets 0..MaxKey
MaxExtra  == 1    \* decode inputs run up to MaxExtra bytes past an account id
MaxPrefix == 1    \* bytes already in an output or a hasher before the handle

\* A sample of u8 values.
Byte == {0, 255}
Keys == 0..MaxKey

\* Compile-time program tags T with their ContractName::NAME.
Tags == {"Flipper", "Erc20"}

\* Environments E the handle types are instantiated with, by the shape of
\* <E as Environment>::AccountId: `len` bytes on the wire, spread over
\* `footprint` storage cells (one packed cell, as the default environment's
\* account id, or one cell per half).
Environments == {[len |-> 1, footprint |-> 1],
                 [len |-> 2, footprint |-> 1],
                 [len |-> 2, footprint |-> 2]}

AccountIds(env) == [1..env.len -> Byte]

\* Byte strings of length at most n.
RECURSIVE BytesUpTo(_)
BytesUpTo(n) == IF n = 0 THEN {<<>>}
                ELSE BytesUpTo(n - 1) \cup [1..n -> Byte]

(***************************************************************************)
(* Result<T, scale::Error>                                                 *)
(***************************************************************************)
Ok(v)  == <<"Ok", v>>
Err(e) == <<"Err", e>>
IsOk(r) == r[1] = "Ok"

(***************************************************************************)
(* The account id type (external to contract_ref.rs).                      *)
(***************************************************************************)
\* scale::Encode::size_hint of the account id: its fixed length.
AccountId_size_hint(a) == Len(a)

\* scale::Encode::encode_to of the account id: its raw bytes, no prefix.
AccountId_encode_to(a, dest) == dest \o a

\* scale::Decode::decode of the account id: reads env.len bytes or fails and
\* reads nothing.
AccountId_decode(env, input) ==
    IF Len(input) >= env.len
    THEN [result |-> Ok(SubSeq(input, 1, env.len)),
          input  |-> SubSeq(input, env.len + 1, Len(input))]
    ELSE [result |-> Err("Not enough data to fill buffer"),
          input  |-> input]

\* Clone of the account id.
AccountId_clone(a) == a

\* Hash of the account id: feeds its length and its bytes to the hasher.
AccountId_hash(a, state) == state \o <<Len(a)>> \o a

\* PartialEq of the account id.
AccountId_eq(a1, a2) == a1 = a2

\* Debug of the account id, as a token sequence.
AccountId_fmt(a) == <<"[">> \o [i \in 1..Len(a) |-> ToString(a[i])] \o <<"]">>

\* SpreadLayout::FOOTPRINT of the account id.
AccountId_FOOTPRINT(env) == env.footprint

\* The i-th of the n cells an account id is spread over.
AccountId_chunk(a, i, n) ==
    SubSeq(a, ((i - 1) * Len(a)) \div n + 1, (i * Len(a)) \div n)

\* A storage cell is <<>> (vacant) or <<bytes>> (occupied).
Vacant == <<>>

\* Whether pull_spread of an account id at cursor p finds cells it can decode.
AccountId_can_pull(env, st, p) ==
    LET n == AccountId_FOOTPRINT(env) IN
    /\ p + n - 1 <= MaxKey
    /\ \A i \in 1..n :
          /\ st[p + i - 1] # Vacant
          /\ Len(st[p + i - 1][1]) = Len(AccountId_chunk([j \in 1..env.len |-> 0], i, n))

RECURSIVE ConcatCells(_, _, _)
ConcatCells(st, p, n) ==
    IF n = 0 THEN <<>> ELSE ConcatCells(st, p, n - 1) \o st[p + n - 1][1]

\* SpreadLayout::pull_spread of the account id.
AccountId_pull_spread(env, st, p) ==
    [val |-> ConcatCells(st, p, AccountId_FOOTPRINT(env)),
     ptr |-> p + AccountId_FOOTPRINT(env)]

\* SpreadLayout::push_spread of the account id.
AccountId_push_spread(env, a, st, p) ==
    LET n == AccountId_FOOTPRINT(env) IN
    [storage |-> [k \in Keys |-> IF k \in p..(p + n - 1)
                                 THEN <<AccountId_chunk(a, k - p + 1, n)>>
                                 ELSE st[k]],
     ptr |-> p + n]

\* SpreadLayout::clear_spread of the account id.
AccountId_clear_spread(env, a, st, p) ==
    LET n == AccountId_FOOTPRINT(env) IN
    [storage |-> [k \in Keys |-> IF k \in p..(p + n - 1) THEN Vacant ELSE st[k]],
     ptr |-> p + n]

(***************************************************************************)
(* CallBuilderBase<T, E>                                                   *)
(***************************************************************************)
\* ContractName::NAME of the program tag.
ContractName_NAME(T) == T

\* The struct: the account id and the zero-sized marker.
CallBuilderBase(account_id) == [account_id |-> account_id, marker |-> "PhantomData"]

CallBuilderBase_fmt(T, self) ==
    <<"ContractRef", "{", "name", ":", ContractName_NAME(T), ",", "account_id", ":">>
        \o AccountId_fmt(self.account_id) \o <<"}">>

CallBuilderBase_clone(self) == CallBuilderBase(AccountId_clone(self.account_id))

CallBuilderBase_size_hint(self) == AccountId_size_hint(self.account_id)

\* Mutant: the account id's bytes written last byte first.
CallBuilderBase_encode_to_Reversed(self, dest) ==
    dest \o [i \in 1..Len(self.account_id) |->
                self.account_id[Len(self.account_id) + 1 - i]]

CallBuilderBase_encode_to(self, dest) == AccountId_encode_to(self.account_id, dest)

CallBuilderBase_from_account_id(account_id) == CallBuilderBase(account_id)

\* Mutant: a failed decode replaced by a default (all-zero) handle.
CallBuilderBase_decode_OrDefault(env, input) ==
    LET d == AccountId_decode(env, input) IN
    [result |-> IF IsOk(d.result)
                THEN Ok(CallBuilderBase_from_account_id(d.result[2]))
                ELSE Ok(CallBuilderBase_from_account_id([i \in 1..env.len |-> 0])),
     input  |-> d.input]

CallBuilderBase_decode(env, input) ==
    LET d == AccountId_decode(env, input) IN
    \* .map(from_account_id): Ok mapped, Err passed through
    [result |-> IF IsOk(d.result)
                THEN Ok(CallBuilderBase_from_account_id(d.result[2]))
                ELSE d.result,
     input  |-> d.input]

CallBuilderBase_to_account_id(self) == AccountId_clone(self.account_id)

CallBuilderBase_hash(self, state) == AccountId_hash(self.account_id, state)

CallBuilderBase_eq(self, other) == AccountId_eq(self.account_id, other.account_id)

CallBuilderBase_FOOTPRINT(T, env) == 1

CallBuilderBase_REQUIRES_DEEP_CLEAN_UP(T, env) == FALSE

CallBuilderBase_pull_spread(env, st, p) ==
    LET r == AccountId_pull_spread(env, st, p) IN
    [val |-> CallBuilderBase(r.val), ptr |-> r.ptr]

CallBuilderBase_push_spread(env, self, st, p) ==
    AccountId_push_spread(env, self.account_id, st, p)

\* Mutant: clear_spread with an empty body, as the packed hooks have.
CallBuilderBase_clear_spread_NoOp(env, self, st, p) == [storage |-> st, ptr |-> p]

CallBuilderBase_clear_spread(env, self, st, p) ==
    AccountId_clear_spread(env, self.account_id, st, p)

\* The packed hooks have empty bodies: self and the storage come back as given.
CallBuilderBase_pull_packed(self, st, at) == [self |-> self, storage |-> st]

CallBuilderBase_push_packed(self, st, at) == [self |-> self, storage |-> st]

\* Mutant: clear_packed erasing the cell at the key it is given.
CallBuilderBase_clear_packed_ClearsCell(self, st, at) ==
    [self |-> self, storage |-> [st EXCEPT ![at] = Vacant]]

CallBuilderBase_clear_packed(self, st, at) == [self |-> self, storage |-> st]

(***************************************************************************)
(* ContractRef<T, E>                                                       *)
(***************************************************************************)
ContractRef(call_builder) == [call_builder |-> call_builder]

\* TraitCallBuilder::call / call_mut: the inner builder.
ContractRef_call(self) == self.call_builder

ContractRef_call_mut(self) == self.call_builder

ContractRef_fmt(T, self) ==
    <<"CallForwarderBase", "{", "call_builder", ":">>
        \o CallBuilderBase_fmt(T, self.call_builder) \o <<"}">>

ContractRef_clone(self) == ContractRef(CallBuilderBase_clone(self.call_builder))

ContractRef_size_hint(self) == CallBuilderBase_size_hint(self.call_builder)

\* Mutant: the forwarder framing the builder's bytes with a length byte.
ContractRef_encode_to_LenPrefixed(self, dest) ==
    CallBuilderBase_encode_to(self.call_builder,
                              dest \o <<CallBuilderBase_size_hint(self.call_builder)>>)

ContractRef_encode_to(self, dest) == CallBuilderBase_encode_to(self.call_builder, dest)

ContractRef_decode(env, input) ==
    LET d == CallBuilderBase_decode(env, input) IN
    \* .map(|call_builder| Self { call_builder })
    [result |-> IF IsOk(d.result) THEN Ok(ContractRef(d.result[2])) ELSE d.result,
     input  |-> d.input]

ContractRef_from_account_id(account_id) ==
    ContractRef(CallBuilderBase_from_account_id(account_id))

\* Mutant: to_account_id returning a default (all-zero) account id.
ContractRef_to_account_id_Default(self) ==
    [i \in 1..Len(self.call_builder.account_id) |-> 0]

ContractRef_to_account_id(self) == CallBuilderBase_to_account_id(self.call_builder)

ContractRef_hash(self, state) == CallBuilderBase_hash(self.call_builder, state)

\* Mutant: eq comparing self's builder with itself.
ContractRef_eq_SelfCompare(self, other) ==
    CallBuilderBase_eq(self.call_builder, self.call_builder)

ContractRef_eq(self, other) == CallBuilderBase_eq(self.call_builder, other.call_builder)

\* Mutant: the footprint taken from the account id type.
ContractRef_FOOTPRINT_OfAccountId(T, env) == AccountId_FOOTPRINT(env)

ContractRef_FOOTPRINT(T, env) == 1

ContractRef_REQUIRES_DEEP_CLEAN_UP(T, env) == FALSE

ContractRef_pull_spread(env, st, p) ==
    LET r == CallBuilderBase_pull_spread(env, st, p) IN
    [val |-> ContractRef(r.val), ptr |-> r.ptr]

ContractRef_push_spread(env, self, st, p) ==
    CallBuilderBase_push_spread(env, self.call_builder, st, p)

\* Mutant: clear_spread forwarding to the builder's push_spread.
ContractRef_clear_spread_AsPush(env, self, st, p) ==
    CallBuilderBase_push_spread(env, self.call_builder, st, p)

ContractRef_clear_spread(env, self, st, p) ==
    CallBuilderBase_clear_spread(env, self.call_builder, st, p)

ContractRef_pull_packed(self, st, at) == [self |-> self, storage |-> st]

ContractRef_push_packed(self, st, at) == [self |-> self, storage |-> st]

ContractRef_clear_packed(self, st, at) == [self |-> self, storage |-> st]

(***************************************************************************)
(* The state machine: a program holding one handle applies the operations  *)
(* of the handle's type to it, one at a time, run to completion.           *)
(***************************************************************************)
IsBuilder(x) == "account_id" \in DOMAIN x
IsRef(x)     == "call_builder" \in DOMAIN x

\* The account id a handle of either type holds.
Held(x) == IF IsBuilder(x) THEN x.account_id ELSE x.call_builder.account_id

NoStorage == [k \in Keys |-> Vacant]

Init ==
    /\ E \in Environments
    /\ \E a \in AccountIds(E) :
          h \in {CallBuilderBase_from_account_id(a), ContractRef_from_account_id(a)}
    /\ storage = NoStorage
    /\ ptr = 0
    /\ ret = [op |-> "init"]

Codec   == UNCHANGED <<E, storage, ptr>>
Layout  == UNCHANGED E

(* ---- conversion ------------------------------------------------------- *)
BuilderFromAccountId ==
    \E a \in AccountIds(E) :
        /\ h' = CallBuilderBase_from_account_id(a)
        /\ ret' = [op |-> "from_account_id", arg |-> a]
        /\ Codec

RefFromAccountId ==
    \E a \in AccountIds(E) :
        /\ h' = ContractRef_from_account_id(a)
        /\ ret' = [op |-> "from_account_id", arg |-> a]
        /\ Codec

BuilderToAccountId ==
    /\ IsBuilder(h)
    /\ ret' = [op |-> "to_account_id", val |-> CallBuilderBase_to_account_id(h)]
    /\ UNCHANGED h /\ Codec

RefToAccountId ==
    /\ IsRef(h)
    /\ ret' = [op |-> "to_account_id", val |-> ContractRef_to_account_id(h)]
    /\ UNCHANGED h /\ Codec

BuilderClone ==
    /\ IsBuilder(h)
    /\ ret' = [op |-> "clone", val |-> CallBuilderBase_clone(h)]
    /\ UNCHANGED h /\ Codec

RefClone ==
    /\ IsRef(h)
    /\ ret' = [op |-> "clone", val |-> ContractRef_clone(h)]
    /\ UNCHANGED h /\ Codec

RefCall ==
    /\ IsRef(h)
    /\ ret' = [op |-> "call", val |-> ContractRef_call(h)]
    /\ UNCHANGED h /\ Codec

RefCallMut ==
    /\ IsRef(h)
    /\ ret' = [op |-> "call_mut", val |-> ContractRef_call_mut(h)]
    /\ UNCHANGED h /\ Codec

(* ---- SCALE codec ------------------------------------------------------ *)
BuilderSizeHint ==
    /\ IsBuilder(h)
    /\ ret' = [op |-> "size_hint", val |-> CallBuilderBase_size_hint(h)]
    /\ UNCHANGED h /\ Codec

RefSizeHint ==
    /\ IsRef(h)
    /\ ret' = [op |-> "size_hint", val |-> ContractRef_size_hint(h)]
    /\ UNCHANGED h /\ Codec

BuilderEncodeTo ==
    /\ IsBuilder(h)
    /\ \E dest \in BytesUpTo(MaxPrefix) :
          ret' = [op |-> "encode_to", dest0 |-> dest,
                  dest |-> CallBuilderBase_encode_to(h, dest)]
    /\ UNCHANGED h /\ Codec

RefEncodeTo ==
    /\ IsRef(h)
    /\ \E dest \in BytesUpTo(MaxPrefix) :
          ret' = [op |-> "encode_to", dest0 |-> dest,
                  dest |-> ContractRef_encode_to(h, dest)]
    /\ UNCHANGED h /\ Codec

\* decode is a constructor: on Ok the program holds the decoded handle, on
\* Err it keeps the one it had.
BuilderDecode ==
    \E input \in BytesUpTo(E.len + MaxExtra) :
        LET d == CallBuilderBase_decode(E, input) IN
        /\ ret' = [op |-> "decode", type |-> "CallBuilderBase", input0 |-> input,
                   result |-> d.result, input |-> d.input]
        /\ h' = IF IsOk(d.result) THEN d.result[2] ELSE h
        /\ Codec

RefDecode ==
    \E input \in BytesUpTo(E.len + MaxExtra) :
        LET d == ContractRef_decode(E, input) IN
        /\ ret' = [op |-> "decode", type |-> "ContractRef", input0 |-> input,
                   result |-> d.result, input |-> d.input]
        /\ h' = IF IsOk(d.result) THEN d.result[2] ELSE h
        /\ Codec

(* ---- identity --------------------------------------------------------- *)
BuilderHash ==
    /\ IsBuilder(h)
    /\ \E state \in BytesUpTo(MaxPrefix) :
          ret' = [op |-> "hash", state0 |-> state,
                  state |-> CallBuilderBase_hash(h, state)]
    /\ UNCHANGED h /\ Codec

RefHash ==
    /\ IsRef(h)
    /\ \E state \in BytesUpTo(MaxPrefix) :
          ret' = [op |-> "hash", state0 |-> state,
                  state |-> ContractRef_hash(h, state)]
    /\ UNCHANGED h /\ Codec

BuilderEq ==
    /\ IsBuilder(h)
    /\ \E a \in AccountIds(E) :
          LET other == CallBuilderBase_from_account_id(a) IN
          ret' = [op |-> "eq", other |-> other, val |-> CallBuilderBase_eq(h, other)]
    /\ UNCHANGED h /\ Codec

RefEq ==
    /\ IsRef(h)
    /\ \E a \in AccountIds(E) :
          LET other == ContractRef_from_account_id(a) IN
          ret' = [op |-> "eq", other |-> other, val |-> ContractRef_eq(h, other)]
    /\ UNCHANGED h /\ Codec

BuilderFmt ==
    /\ IsBuilder(h)
    /\ \E T \in Tags :
          ret' = [op |-> "fmt", tag |-> T, out |-> CallBuilderBase_fmt(T, h)]
    /\ UNCHANGED h /\ Codec

RefFmt ==
    /\ IsRef(h)
    /\ \E T \in Tags :
          ret' = [op |-> "fmt", tag |-> T, out |-> ContractRef_fmt(T, h)]
    /\ UNCHANGED h /\ Codec

(* ---- spread layout ---------------------------------------------------- *)
\* Reading the associated constants of the handle's type.
BuilderFootprint ==
    /\ IsBuilder(h)
    /\ \E T \in Tags :
          ret' = [op |-> "FOOTPRINT", tag |-> T,
                  val |-> CallBuilderBase_FOOTPRINT(T, E),
                  deep |-> CallBuilderBase_REQUIRES_DEEP_CLEAN_UP(T, E)]
    /\ UNCHANGED <<h, storage, ptr>> /\ Layout

RefFootprint ==
    /\ IsRef(h)
    /\ \E T \in Tags :
          ret' = [op |-> "FOOTPRINT", tag |-> T,
                  val |-> ContractRef_FOOTPRINT(T, E),
                  deep |-> ContractRef_REQUIRES_DEEP_CLEAN_UP(T, E)]
    /\ UNCHANGED <<h, storage, ptr>> /\ Layout

\* The cells from the cursor on exist (the model's storage is finite).
InRange == ptr + AccountId_FOOTPRINT(E) - 1 <= MaxKey

\* pull_spread is a constructor; it traps on a vacant or undecodable cell.
BuilderPullSpread ==
    /\ AccountId_can_pull(E, storage, ptr)
    /\ LET r == CallBuilderBase_pull_spread(E, storage, ptr) IN
          /\ h' = r.val
          /\ ptr' = r.ptr
    /\ ret' = [op |-> "pull_spread"]
    /\ UNCHANGED storage /\ Layout

RefPullSpread ==
    /\ AccountId_can_pull(E, storage, ptr)
    /\ LET r == ContractRef_pull_spread(E, storage, ptr) IN
          /\ h' = r.val
          /\ ptr' = r.ptr
    /\ ret' = [op |-> "pull_spread"]
    /\ UNCHANGED storage /\ Layout

BuilderPushSpread ==
    /\ IsBuilder(h) /\ InRange
    /\ LET r == CallBuilderBase_push_spread(E, h, storage, ptr) IN
          /\ storage' = r.storage
          /\ ptr' = r.ptr
    /\ ret' = [op |-> "push_spread"]
    /\ UNCHANGED h /\ Layout

RefPushSpread ==
    /\ IsRef(h) /\ InRange
    /\ LET r == ContractRef_push_spread(E, h, storage, ptr) IN
          /\ storage' = r.storage
          /\ ptr' = r.ptr
    /\ ret' = [op |-> "push_spread"]
    /\ UNCHANGED h /\ Layout

BuilderClearSpread ==
    /\ IsBuilder(h) /\ InRange
    /\ LET r == CallBuilderBase_clear_spread(E, h, storage, ptr) IN
          /\ storage' = r.storage
          /\ ptr' = r.ptr
    /\ ret' = [op |-> "clear_spread"]
    /\ UNCHANGED h /\ Layout

RefClearSpread ==
    /\ IsRef(h) /\ InRange
    /\ LET r == ContractRef_clear_spread(E, h, storage, ptr) IN
          /\ storage' = r.storage
          /\ ptr' = r.ptr
    /\ ret' = [op |-> "clear_spread"]
    /\ UNCHANGED h /\ Layout

\* A caller starts the next traversal from a root key of its choosing.
NewKeyPtr ==
    /\ \E k \in Keys : ptr' = k
    /\ ptr' # ptr
    /\ ret' = [op |-> "KeyPtr"]
    /\ UNCHANGED <<h, storage>> /\ Layout

(* ---- packed layout ---------------------------------------------------- *)
BuilderPullPacked ==
    /\ IsBuilder(h)
    /\ \E at \in Keys :
          LET r == CallBuilderBase_pull_packed(h, storage, at) IN
          /\ h' = r.self
          /\ storage' = r.storage
    /\ ret' = [op |-> "pull_packed"]
    /\ UNCHANGED ptr /\ Layout

BuilderPushPacked ==
    /\ IsBuilder(h)
    /\ \E at \in Keys :
          LET r == CallBuilderBase_push_packed(h, storage, at) IN
          /\ h' = r.self
          /\ storage' = r.storage
    /\ ret' = [op |-> "push_packed"]
    /\ UNCHANGED ptr /\ Layout

BuilderClearPacked ==
    /\ IsBuilder(h)
    /\ \E at \in Keys :
          LET r == CallBuilderBase_clear_packed(h, storage, at) IN
          /\ h' = r.self
          /\ storage' = r.storage
    /\ ret' = [op |-> "clear_packed"]
    /\ UNCHANGED ptr /\ Layout

RefPullPacked ==
    /\ IsRef(h)
    /\ \E at \in Keys :
          LET r == ContractRef_pull_packed(h, storage, at) IN
          /\ h' = r.self
          /\ storage' = r.storage
    /\ ret' = [op |-> "pull_packed"]
    /\ UNCHANGED ptr /\ Layout

RefPushPacked ==
    /\ IsRef(h)
    /\ \E at \in Keys :
          LET r == ContractRef_push_packed(h, storage, at) IN
          /\ h' = r.self
          /\ storage' = r.storage
    /\ ret' = [op |-> "push_packed"]
    /\ UNCHANGED ptr /\ Layout

RefClearPacked ==
    /\ IsRef(h)
    /\ \E at \in Keys :
          LET r == ContractRef_clear_packed(h, storage, at) IN
          /\ h' = r.self
          /\ storage' = r.storage
    /\ ret' = [op |-> "clear_packed"]
    /\ UNCHANGED ptr /\ Layout

(* ---- specifications --------------------------------------------------- *)
\* Conversion, codec and identity operations: storage is not touched.
NextCodec ==
    \/ BuilderFromAccountId \/ RefFromAccountId
    \/ BuilderToAccountId \/ RefToAccountId
    \/ BuilderClone \/ RefClone
    \/ RefCall \/ RefCallMut
    \/ BuilderSizeHint \/ RefSizeHint
    \/ BuilderEncodeTo \/ RefEncodeTo
    \/ BuilderDecode \/ RefDecode
    \/ BuilderHash \/ RefHash
    \/ BuilderEq \/ RefEq
    \/ BuilderFmt \/ RefFmt

\* Storage layout operations, on handles made from account ids.
NextLayout ==
    \/ BuilderFromAccountId \/ RefFromAccountId
    \/ BuilderFootprint \/ RefFootprint
    \/ BuilderPullSpread \/ RefPullSpread
    \/ BuilderPushSpread \/ RefPushSpread
    \/ BuilderClearSpread \/ RefClearSpread
    \/ NewKeyPtr
    \/ BuilderPullPacked \/ BuilderPushPacked \/ BuilderClearPacked
    \/ RefPullPacked \/ RefPushPacked \/ RefClearPacked

\* Every operation of the forwarder, applied to the forwarder the program holds.
NextForward ==
    \/ RefFromAccountId \/ RefToAccountId \/ RefClone
    \/ RefCall \/ RefCallMut
    \/ RefSizeHint \/ RefEncodeTo \/ RefDecode
    \/ RefHash \/ RefEq \/ RefFmt
    \/ RefFootprint
    \/ RefPullSpread \/ RefPushSpread \/ RefClearSpread
    \/ NewKeyPtr
    \/ RefPullPacked \/ RefPushPacked \/ RefClearPacked

SpecCodec   == Init /\ [][NextCodec]_vars
SpecLayout  == Init /\ [][NextLayout]_vars
SpecForward == Init /\ [][NextForward]_vars

(***************************************************************************)
(* Properties.                                                             *)
(***************************************************************************)
\* The operations of h's own type, for stating a property of both types.
FromAccountIdOf(type, a) ==
    IF type = "ContractRef" THEN ContractRef_from_account_id(a)
    ELSE CallBuilderBase_from_account_id(a)

TypeOf(x) == IF IsRef(x) THEN "ContractRef" ELSE "CallBuilderBase"

ToAccountIdOf(x) ==
    IF IsRef(x) THEN ContractRef_to_account_id(x) ELSE CallBuilderBase_to_account_id(x)

EncodeToOf(x, dest) ==
    IF IsRef(x) THEN ContractRef_encode_to(x, dest) ELSE CallBuilderBase_encode_to(x, dest)

DecodeOf(type, env, input) ==
    IF type = "ContractRef" THEN ContractRef_decode(env, input)
    ELSE CallBuilderBase_decode(env, input)

HashOf(x, state) ==
    IF IsRef(x) THEN ContractRef_hash(x, state) ELSE CallBuilderBase_hash(x, state)

EqOf(x, y) ==
    IF IsRef(x) THEN ContractRef_eq(x, y) ELSE CallBuilderBase_eq(x, y)

PullSpreadOf(type, env, st, p) ==
    IF type = "ContractRef" THEN ContractRef_pull_spread(env, st, p)
    ELSE CallBuilderBase_pull_spread(env, st, p)

FootprintOf(type, T, env) ==
    IF type = "ContractRef" THEN ContractRef_FOOTPRINT(T, env)
    ELSE CallBuilderBase_FOOTPRINT(T, env)

Has255(a) == \E i \in 1..Len(a) : a[i] = 255

\* C1: encoding a handle made from account id a (builder or forwarder, any
\* tag) appends to the output exactly the bytes encoding a alone appends, with
\* no prefix, suffix or framing, and the handle's size_hint is a's size_hint.
C1_EncodeIsAccountIdBytes ==
    /\ ret.op = "encode_to" =>
          /\ ret.dest = AccountId_encode_to(Held(h), ret.dest0)
          /\ SubSeq(ret.dest, 1, Len(ret.dest0)) = ret.dest0
          /\ SubSeq(ret.dest, Len(ret.dest0) + 1, Len(ret.dest)) = Held(h)
    /\ ret.op = "size_hint" => ret.val = AccountId_size_hint(Held(h))
    /\ ret.op = "from_account_id" =>
          /\ Held(h) = ret.arg
          /\ \A dest \in BytesUpTo(MaxPrefix) :
                EncodeToOf(h, dest) = AccountId_encode_to(ret.arg, dest)

C1_Witness ==
    /\ ret.op = "encode_to" /\ IsRef(h)
    /\ ret.dest0 # <<>> /\ Has255(Held(h))
    /\ Len(ret.dest) = Len(ret.dest0) + E.len

\* C2: decoding a handle from bytes b gives Ok(from_account_id(a)) exactly
\* when the account id decoder gives Ok(a) on b and Err(e) with the same e
\* exactly when it gives Err(e); an input one byte short of an account id is
\* a decode error and never a handle; the handle decoder consumes as many
\* input bytes as the account id decoder.
C2_DecodeDelegates ==
    ret.op = "decode" =>
        LET d == AccountId_decode(E, ret.input0) IN
        /\ IsOk(d.result) =>
              /\ ret.result = Ok(FromAccountIdOf(ret.type, d.result[2]))
              /\ h = ret.result[2]
              /\ Held(h) = SubSeq(ret.input0, 1, E.len)
        /\ ~IsOk(d.result) => ret.result = d.result
        /\ IsOk(ret.result) <=> Len(ret.input0) >= E.len
        /\ Len(ret.input0) = E.len - 1 => ~IsOk(ret.result)
        /\ ret.input = d.input
        /\ Len(ret.input0) - Len(ret.input) = (IF IsOk(ret.result) THEN E.len ELSE 0)

C2_Witness ==
    /\ ret.op = "decode" /\ ret.type = "ContractRef"
    /\ E.len = 2 /\ Len(ret.input0) = E.len - 1
    /\ ret.result = Err("Not enough data to fill buffer")

\* C3: round trip: for every account id a,
\* decode(encode(from_account_id(a))) = Ok(from_account_id(a)), for the
\* builder and for the forwarder.
C3_RoundTrip ==
    /\ ret.op = "encode_to" /\ ret.dest0 = <<>> =>
          LET d == DecodeOf(TypeOf(h), E, ret.dest) IN
          /\ d.result = Ok(FromAccountIdOf(TypeOf(h), Held(h)))
          /\ d.result = Ok(h)
          /\ d.input = <<>>
    /\ ret.op = "from_account_id" =>
          DecodeOf(TypeOf(h), E, EncodeToOf(h, <<>>)).result
              = Ok(FromAccountIdOf(TypeOf(h), ret.arg))
    /\ ret.op = "decode" /\ IsOk(ret.result) =>
          EncodeToOf(ret.result[2], <<>>) \o ret.input = ret.input0

C3_Witness ==
    /\ ret.op = "encode_to" /\ ret.dest0 = <<>> /\ IsRef(h)
    /\ E.len = 2 /\ Held(h)[1] # Held(h)[2]
    /\ DecodeOf("ContractRef", E, ret.dest).result = Ok(h)

\* C4: identity of conversion: from_account_id(a).to_account_id() = a for the
\* builder and for the forwarder; to_account_id returns a duplicate and
\* leaves the handle as it was, so repeated calls keep returning a.
C4_ConversionIdentity ==
    [][ /\ ret'.op = "from_account_id" =>
              /\ ToAccountIdOf(h') = ret'.arg
              /\ h' = FromAccountIdOf(TypeOf(h'), ret'.arg)
        /\ ret'.op = "to_account_id" =>
              /\ h' = h
              /\ ret'.val = Held(h)
              /\ ret.op = "from_account_id" => ret'.val = ret.arg
              /\ ret.op = "to_account_id" => ret'.val = ret.val ]_vars

C4_Witness ==
    /\ ret.op = "to_account_id" /\ IsRef(h)
    /\ E.len = 2 /\ ret.val = <<0, 255>>

\* C5: two handles of one type made from account ids a1, a2 are equal iff
\* a1 = a2; the hash of a handle is the hash of its account id, so equal
\* account ids feed the hasher identically.
C5_EqHashDelegate ==
    /\ ret.op = "eq" => (ret.val <=> (Held(h) = Held(ret.other)))
    /\ ret.op = "hash" => ret.state = AccountId_hash(Held(h), ret.state0)
    /\ \A a \in AccountIds(E) :
          LET other == FromAccountIdOf(TypeOf(h), a) IN
          /\ EqOf(h, other) <=> (Held(h) = a)
          /\ EqOf(h, other) <=> EqOf(other, h)
          /\ Held(h) = a =>
                \A state \in BytesUpTo(MaxPrefix) :
                    HashOf(h, state) = HashOf(other, state)

C5_Witness ==
    /\ ret.op = "eq" /\ IsRef(h)
    /\ ret.val = FALSE /\ Held(h) # Held(ret.other)

\* The forwarder's step gives what the builder's operation gives on its inner
\* builder (constructors: the builder's result wrapped in a forwarder).
C6_Forwarded ==
    /\ ret'.op = "from_account_id" =>
          h' = ContractRef(CallBuilderBase_from_account_id(ret'.arg))
    /\ ret'.op = "to_account_id" =>
          ret'.val = CallBuilderBase_to_account_id(ContractRef_call(h))
    /\ ret'.op = "clone" =>
          ret'.val = ContractRef(CallBuilderBase_clone(ContractRef_call(h)))
    /\ ret'.op = "size_hint" =>
          ret'.val = CallBuilderBase_size_hint(ContractRef_call(h))
    /\ ret'.op = "encode_to" =>
          ret'.dest = CallBuilderBase_encode_to(ContractRef_call(h), ret'.dest0)
    /\ ret'.op = "decode" =>
          LET d == CallBuilderBase_decode(E, ret'.input0) IN
          /\ ret'.result = IF IsOk(d.result) THEN Ok(ContractRef(d.result[2]))
                           ELSE d.result
          /\ ret'.input = d.input
    /\ ret'.op = "hash" =>
          ret'.state = CallBuilderBase_hash(ContractRef_call(h), ret'.state0)
    /\ ret'.op = "eq" =>
          ret'.val = CallBuilderBase_eq(ContractRef_call(h), ContractRef_call(ret'.other))
    /\ ret'.op = "FOOTPRINT" =>
          /\ ret'.val = CallBuilderBase_FOOTPRINT(ret'.tag, E)
          /\ ret'.deep = CallBuilderBase_REQUIRES_DEEP_CLEAN_UP(ret'.tag, E)
    /\ ret'.op = "pull_spread" =>
          LET r == CallBuilderBase_pull_spread(E, storage, ptr) IN
          /\ h' = ContractRef(r.val)
          /\ ptr' = r.ptr
          /\ storage' = storage
    /\ ret'.op = "push_spread" =>
          LET r == CallBuilderBase_push_spread(E, ContractRef_call(h), storage, ptr) IN
          /\ storage' = r.storage
          /\ ptr' = r.ptr
          /\ h' = h
    /\ ret'.op = "clear_spread" =>
          LET r == CallBuilderBase_clear_spread(E, ContractRef_call(h), storage, ptr) IN
          /\ storage' = r.storage
          /\ ptr' = r.ptr
          /\ h' = h
    /\ ret'.op = "pull_packed" =>
          \A at \in Keys :
              LET r == CallBuilderBase_pull_packed(ContractRef_call(h), storage, at) IN
              h' = ContractRef(r.self) /\ storage' = r.storage /\ ptr' = ptr
    /\ ret'.op = "push_packed" =>
          \A at \in Keys :
              LET r == CallBuilderBase_push_packed(ContractRef_call(h), storage, at) IN
              h' = ContractRef(r.self) /\ storage' = r.storage /\ ptr' = ptr
    /\ ret'.op = "clear_packed" =>
          \A at \in Keys :
              LET r == CallBuilderBase_clear_packed(ContractRef_call(h), storage, at) IN
              h' = ContractRef(r.self) /\ storage' = r.storage /\ ptr' = ptr

\* Debug formatting of the forwarder: the builder's output, as it is.
C6_FmtSame ==
    ret'.op = "fmt" => ret'.out = CallBuilderBase_fmt(ret'.tag, ContractRef_call(h))

\* Debug formatting of the forwarder: the builder's output as the one field
\* of a struct named CallForwarderBase.
C6_FmtWrapped ==
    ret'.op = "fmt" =>
        /\ ret'.out = <<"CallForwarderBase", "{", "call_builder", ":">>
                        \o CallBuilderBase_fmt(ret'.tag, ContractRef_call(h))
                        \o <<"}">>
        /\ ret'.out # CallBuilderBase_fmt(ret'.tag, ContractRef_call(h))

C7_FootprintIsOne ==
    /\ ret.op = "FOOTPRINT" => ret.val = 1 /\ ret.deep = FALSE
    /\ \A T \in Tags :
          /\ CallBuilderBase_FOOTPRINT(T, E) = 1
          /\ ContractRef_FOOTPRINT(T, E) = 1
          /\ ~CallBuilderBase_REQUIRES_DEEP_CLEAN_UP(T, E)
          /\ ~ContractRef_REQUIRES_DEEP_CLEAN_UP(T, E)

C7_Witness ==
    /\ ret.op = "FOOTPRINT" /\ IsRef(h) /\ ret.val = 1
    /\ AccountId_FOOTPRINT(E) = 2 /\ Has255(Held(h))

\* C8: packed pull, push and clear on a handle, at any key, in any order and
\* any number of times, leave the handle's account id and every storage cell
\* as they were.
C8_PackedNoOp ==
    [][ ret'.op \in {"pull_packed", "push_packed", "clear_packed"} =>
            /\ h' = h
            /\ Held(h') = Held(h)
            /\ \A k \in Keys : storage'[k] = storage[k]
            /\ ptr' = ptr ]_vars

C8_Witness ==
    /\ ret.op = "clear_packed" /\ IsBuilder(h)
    /\ \A k \in Keys : storage[k] # Vacant

\* C9: push_spread of a handle holding a, from cursor p, writes a at the
\* cells addressed from p and advances the cursor; pull_spread from the same
\* p, with no write to those cells in between, returns from_account_id(a) and
\* advances the cursor as much; clear_spread from p vacates those cells and
\* leaves every other cell and the handle as they were. Storage and cursor
\* change exactly as under the account id's own push, pull and clear.
C9_SpreadRoundTrip ==
    [][ LET n     == AccountId_FOOTPRINT(E)
            cells == ptr..(ptr + n - 1)
        IN
        /\ ret'.op = "push_spread" =>
              /\ h' = h
              /\ ptr' = ptr + n
              /\ \A k \in Keys \ cells : storage'[k] = storage[k]
              /\ [storage |-> storage', ptr |-> ptr']
                    = AccountId_push_spread(E, Held(h), storage, ptr)
              /\ AccountId_can_pull(E, storage', ptr)
              /\ PullSpreadOf(TypeOf(h), E, storage', ptr)
                    = [val |-> FromAccountIdOf(TypeOf(h), Held(h)), ptr |-> ptr']
              /\ \A q \in Keys, a2 \in AccountIds(E) :
                    (q + n - 1 <= MaxKey /\ (q..(q + n - 1)) \cap cells = {}) =>
                        PullSpreadOf(TypeOf(h), E,
                                     AccountId_push_spread(E, a2, storage', q).storage,
                                     ptr).val = h
        /\ ret'.op = "pull_spread" =>
              /\ storage' = storage
              /\ [val |-> Held(h'), ptr |-> ptr'] = AccountId_pull_spread(E, storage, ptr)
              /\ h' = FromAccountIdOf(TypeOf(h'), Held(h'))
              /\ ptr' = ptr + n
        /\ ret'.op = "clear_spread" =>
              /\ h' = h
              /\ \A k \in Keys :
                    storage'[k] = IF k \in cells THEN Vacant ELSE storage[k]
              /\ [storage |-> storage', ptr |-> ptr']
                    = AccountId_clear_spread(E, Held(h), storage, ptr) ]_vars

C9_Witness ==
    /\ ret.op = "pull_spread" /\ IsRef(h)
    /\ E.len = 2 /\ Held(h) = <<0, 255>>
    /\ ptr = AccountId_FOOTPRINT(E)

\* C10: for every account id type, spread pull, push and clear on a handle
\* advance the cursor by exactly the handle's declared footprint of 1, so a
\* composite reserving FOOTPRINT cells per handle reads back each handle it
\* wrote and two handles pushed one after the other never share a cell.
C10_CursorAdvanceIsFootprint ==
    [][ ret'.op \in {"pull_spread", "push_spread", "clear_spread"} =>
            \A T \in Tags :
                /\ ptr' = ptr + FootprintOf(TypeOf(h'), T, E)
                /\ ptr' = ptr + 1 ]_vars

====
